---------------------------- MODULE Spec2Model ----------------------------
(***************************************************************************)
(* A model of src/bot.py: the outage-table bot (fetch, signature, diff,    *)
(* colour classifier, interval builder, snapshot and its handlers).  *)
(*                                                                         *)
(* Python strings are TLA+ strings handled character by character (Len,    *)
(* SubSeq and \o of TLC work on strings).  Three characters that a module  *)
(* cannot hold are written with an ASCII stand-in, see NBSP, EN_DASH and   *)
(* EM_DASH.                                                                *)
(***************************************************************************)
EXTENDS Integers, Sequences, FiniteSets, TLC

VARIABLES
    State,        \* the snapshot dict STATE (bot.py:90)
    SUBSCRIBERS,  \* the set of subscribed chat ids (bot.py:91)
    pc,           \* per thread: where its current handler stands
    run,          \* per thread: what its current/last handler did
    clock,        \* int(time.time())
    call,         \* the arguments of the pure function under check
    ret           \* its result, NotRun before the call

vars == <<State, SUBSCRIBERS, pc, run, clock, call, ret>>

botVars == <<State, SUBSCRIBERS, pc, run, clock>>

-----------------------------------------------------------------------------
(* Python values, and the state the bot starts in *)

Threads == {"job", "disp"}

\* a dict with the keys it holds; a key it does not hold reads as the
\* value noted here and is never looked at
EmptyState ==
    [keys |-> {}, sha256 |-> "", headers |-> <<>>, rows |-> <<>>, ts |-> 0]

\* what a thread's last handler did; fetched is the (headers, rows) that
\* fetch_table returned to check_job, empty before that
IdleRun ==
    [handler |-> "none", queue |-> "", fetches |-> 0, outcome |-> "none",
     notified |-> FALSE, changes |-> 0, reply |-> "none",
     fetched |-> <<<<>>, <<>>>>]

\* the bot at rest, as the checks of the pure functions leave it
BotAtRest ==
    /\ State = EmptyState
    /\ SUBSCRIBERS = {}
    /\ pc = [t \in Threads |-> "idle"]
    /\ run = [t \in Threads |-> IdleRun]
    /\ clock = 0

NotRun == [fn |-> "none"]

\* U+00A0, NO-BREAK SPACE
NBSP == "_"

\* U+2013, EN DASH
EN_DASH == "~"

\* U+2014, EM DASH
EM_DASH == "^"

Min2(a, b) == IF a <= b THEN a ELSE b

Max2(a, b) == IF a >= b THEN a ELSE b

-----------------------------------------------------------------------------
(* str methods *)

Char(s, i) == SubSeq(s, i, i)

\* what str.isspace() accepts among the characters used here
IsSpace(c) == c \in {" ", "\n", "\t", NBSP}

\* the whitespace _whitespace_re's \s+ matches
_whitespace_re(c) == IsSpace(c)

\* s[i:] with a 1-based i
From(s, i) == SubSeq(s, i, Len(s))

\* str.find, 1-based; 0 when k does not occur in s
RECURSIVE FindFrom(_, _, _)
FindFrom(s, k, i) ==
    IF i + Len(k) - 1 > Len(s) THEN 0
    ELSE IF SubSeq(s, i, i + Len(k) - 1) = k THEN i
    ELSE FindFrom(s, k, i + 1)

Find(s, k) == FindFrom(s, k, 1)

\* k in s
In(k, s) == Find(s, k) # 0

\* s.split(sep, 1)
Split1(s, sep) ==
    LET p == Find(s, sep)
    IN  IF p = 0 THEN <<s>>
        ELSE <<SubSeq(s, 1, p - 1), From(s, p + Len(sep))>>

\* s.split(sep)
RECURSIVE Split(_, _)
Split(s, sep) ==
    LET p == Find(s, sep)
    IN  IF p = 0 THEN <<s>>
        ELSE <<SubSeq(s, 1, p - 1)>> \o Split(From(s, p + Len(sep)), sep)

\* sep.join(parts)
RECURSIVE Join(_, _)
Join(parts, sep) ==
    IF Len(parts) = 0 THEN ""
    ELSE IF Len(parts) = 1 THEN parts[1]
    ELSE parts[1] \o sep \o Join(Tail(parts), sep)

RECURSIVE LStrip(_)
LStrip(s) ==
    IF Len(s) > 0 /\ IsSpace(Char(s, 1)) THEN LStrip(From(s, 2)) ELSE s

RECURSIVE RStrip(_)
RStrip(s) ==
    IF Len(s) > 0 /\ IsSpace(Char(s, Len(s)))
    THEN RStrip(SubSeq(s, 1, Len(s) - 1)) ELSE s

\* s.strip()
Strip(s) == LStrip(RStrip(s))

\* s.replace(a, b) for a one-character a
RECURSIVE Replace(_, _, _)
Replace(s, a, b) ==
    IF Len(s) = 0 THEN ""
    ELSE (IF Char(s, 1) = a THEN b ELSE Char(s, 1)) \o Replace(From(s, 2), a, b)

Uppers == "ABCDEFGHIJKLMNOPQRSTUVWXYZ"

Lowers == "abcdefghijklmnopqrstuvwxyz"

LowerChar(c) ==
    LET p == Find(Uppers, c) IN IF p = 0 THEN c ELSE Char(Lowers, p)

\* s.lower(), over ASCII
RECURSIVE Lower(_)
Lower(s) ==
    IF Len(s) = 0 THEN "" ELSE LowerChar(Char(s, 1)) \o Lower(From(s, 2))

DigitVal(c) ==
    CASE c = "0" -> 0 [] c = "1" -> 1 [] c = "2" -> 2 [] c = "3" -> 3
      [] c = "4" -> 4 [] c = "5" -> 5 [] c = "6" -> 6 [] c = "7" -> 7
      [] c = "8" -> 8 [] c = "9" -> 9
      [] OTHER -> -1

RECURSIVE DigitsVal(_, _)
DigitsVal(s, acc) ==
    IF Len(s) = 0 THEN acc
    ELSE DigitsVal(From(s, 2), acc * 10 + DigitVal(Char(s, 1)))

AllDigits(s) ==
    Len(s) > 0 /\ \A i \in 1..Len(s) : DigitVal(Char(s, i)) >= 0

\* int(s): surrounding whitespace, an optional sign, decimal digits.  ok is
\* FALSE where Python raises ValueError
int(s) ==
    LET t == Strip(s)
        signed == Len(t) > 0 /\ Char(t, 1) \in {"+", "-"}
        d == IF signed THEN From(t, 2) ELSE t
    IN  IF ~AllDigits(d) THEN [ok |-> FALSE, val |-> 0]
        ELSE IF signed /\ Char(t, 1) = "-"
             THEN [ok |-> TRUE, val |-> 0 - DigitsVal(d, 0)]
             ELSE [ok |-> TRUE, val |-> DigitsVal(d, 0)]

RECURSIVE Str(_)
\* str(n) of an n >= 0
Str(n) ==
    IF n < 10 THEN Char("0123456789", n + 1)
    ELSE Str(n \div 10) \o Char("0123456789", (n % 10) + 1)

-----------------------------------------------------------------------------
(* bot.py:93-105, cleaning and encoding a cell *)

\* _whitespace_re.sub(" ", s): every run of whitespace becomes one space
RECURSIVE CollapseWs(_)
CollapseWs(s) ==
    IF Len(s) = 0 THEN ""
    ELSE IF _whitespace_re(Char(s, 1))
         THEN " " \o CollapseWs(LStrip(s))
         ELSE Char(s, 1) \o CollapseWs(From(s, 2))

_clean_text(s) ==
    IF s = "" THEN "" ELSE Strip(CollapseWs(Replace(s, NBSP, " ")))

\* normalize_cell_text of a <td> with the given text, sorted and joined class
\* list and style attribute
normalize_cell_text(text, classes, style, include_class) ==
    LET t == _clean_text(text)
    IN  IF include_class /\ (classes # "" \/ style # "")
        THEN t \o "{" \o classes \o "|" \o style \o "}"
        ELSE t

-----------------------------------------------------------------------------
(* bot.py:117-191, extracting and fetching the table.  A page is what the  *)
(* parser finds in it: its <table>s in document order, each with the text  *)
(* of its <th>s and, per <tr>, its <td>s (text, sorted classes, style).    *)

\* the Cyrillic word for "hour" that heads the time column, in ASCII
HOUR == "Chas"

RECURSIVE NormalizeAll(_, _)
\* [normalize_cell_text(c, include_class) for c in cells]
NormalizeAll(cells, include_class) ==
    IF Len(cells) = 0 THEN <<>>
    ELSE <<normalize_cell_text(cells[1].text, cells[1].classes,
                               cells[1].style, include_class)>>
         \o NormalizeAll(Tail(cells), include_class)

\* a <th> as a cell
Th(text) == [text |-> text, classes |-> "", style |-> ""]

RECURSIVE ThCells(_)
ThCells(ths) ==
    IF Len(ths) = 0 THEN <<>> ELSE <<Th(ths[1])>> \o ThCells(Tail(ths))

\* the table's <th>s normalized
TableHeaders(t) == NormalizeAll(ThCells(t.ths), FALSE)

\* the test that prefers a table: its first header names the hour
HeadsSchedule(t) ==
    LET ths == TableHeaders(t)
    IN  Len(ths) > 0 /\
        (In(HOUR, ths[1]) \/
         SubSeq(Lower(ths[1]), 1, Len(HOUR)) = Lower(HOUR))

RECURSIVE DataRows(_)
\* the rows loop: a <tr> without <td> is skipped
DataRows(trs) ==
    IF Len(trs) = 0 THEN <<>>
    ELSE (IF Len(trs[1]) = 0 THEN <<>>
          ELSE <<NormalizeAll(trs[1], TRUE)>>)
         \o DataRows(Tail(trs))

RECURSIVE ColNames(_, _)
\* [f"col{i+1}" for i in range(n)] from i on
ColNames(i, n) ==
    IF i >= n THEN <<>> ELSE <<"col" \o Str(i + 1)>> \o ColNames(i + 1, n)

\* with TABLE_SELECTOR unset; found is FALSE for (None, None)
_extract_table_from_soup(page) ==
    IF Len(page) = 0 THEN [found |-> FALSE, headers |-> <<>>, rows |-> <<>>]
    ELSE
      LET table ==
            IF \E i \in 1..Len(page) : HeadsSchedule(page[i])
            THEN page[CHOOSE i \in 1..Len(page) :
                        /\ HeadsSchedule(page[i])
                        /\ \A j \in 1..(i - 1) : ~HeadsSchedule(page[j])]
            ELSE page[1]
          headers == TableHeaders(table)
          rows == DataRows(table.trs)
      IN  [found |-> TRUE,
           headers |-> IF Len(headers) = 0 /\ Len(rows) > 0
                       THEN ColNames(0, Len(rows[1])) ELSE headers,
           rows |-> rows]

HasTemplate(c) == In("{{", c) \/ In("}}", c)

_looks_unrendered(headers, rows) ==
    LET joined_h == Join(headers, " ")
        first10 == SubSeq(rows, 1, Min2(10, Len(rows)))
        count_tpl == Cardinality({i \in 1..Len(first10) :
                        \E j \in 1..Len(first10[i]) : HasTemplate(first10[i][j])})
    IN  IF HasTemplate(joined_h) THEN TRUE
        ELSE IF Len(headers) <= 1 THEN TRUE
        ELSE count_tpl >= 2

FetchError == [ok |-> FALSE, headers |-> <<>>, rows |-> <<>>]

\* get: what requests.get gives, an error (exception, bad status) or a page;
\* rendered: what the browser gives when it is asked, an error or a page
\* what fetch_table returns once both extractions are done: the rendered
\* table when it has headers and rows, else the first one, and None when
\* that one lacks headers or rows
returned_table(first, second) ==
    IF Len(second.headers) > 0 /\ Len(second.rows) > 0
    THEN [ok |-> TRUE, headers |-> second.headers, rows |-> second.rows]
    ELSE IF Len(first.headers) = 0 \/ Len(first.rows) = 0 THEN FetchError
    ELSE [ok |-> TRUE, headers |-> first.headers, rows |-> first.rows]

\* the Playwright branch, taken when the first table is missing or looks
\* unrendered and Playwright is installed and renders the page
render_if_needed(first, need_render, _PLAYWRIGHT_OK, rendered) ==
    returned_table(first,
        IF need_render /\ _PLAYWRIGHT_OK /\ rendered.kind = "page"
        THEN _extract_table_from_soup(rendered.page)
        ELSE [found |-> FALSE, headers |-> <<>>, rows |-> <<>>])

first_table(first, _PLAYWRIGHT_OK, rendered) ==
    render_if_needed(first,
        ~first.found \/ _looks_unrendered(first.headers, first.rows),
        _PLAYWRIGHT_OK, rendered)

fetch_table(get, _PLAYWRIGHT_OK, rendered) ==
    IF get.kind = "error" THEN FetchError
    ELSE first_table(_extract_table_from_soup(get.page),
                     _PLAYWRIGHT_OK, rendered)

-----------------------------------------------------------------------------
(* bot.py:193-213, the signature and the diff *)

\* hashlib.sha256(payload).hexdigest(), taken as collision-free: the digest
\* names its input
sha256_hexdigest(payload) == "sha256(" \o payload \o ")"

RECURSIVE JoinRows(_)
\* "\n".join("|".join(r) for r in rows)
JoinRows(rows) ==
    IF Len(rows) = 0 THEN ""
    ELSE IF Len(rows) = 1 THEN Join(rows[1], "|")
    ELSE Join(rows[1], "|") \o "\n" \o JoinRows(Tail(rows))

table_signature(headers, rows) ==
    sha256_hexdigest(Join(headers, "\n") \o "\n" \o JoinRows(rows))

\* a diff that compares what the cells show and overlooks their styling
cell_differs_text_only(old, new) == Split(old, "{")[1] # Split(new, "{")[1]

\* a comparison that takes every styled cell for a changed one
cell_differs_or_styled(old, new) == old # new \/ In("{", new)

\* old != new
cell_differs(old, new) == old # new

\* time_val of row i (0-based)
time_val(prev_row, row, i) ==
    Split1(IF Len(row) > 0 THEN row[1]
           ELSE IF Len(prev_row) > 0 THEN prev_row[1]
           ELSE "row" \o Str(i + 1), "{")[1]

RECURSIVE RowChanges(_, _, _, _, _)
\* the entries of one row from column j (0-based) on, as changes_all gets
\* them
RowChanges(prev_row, row, headers, tv, j) ==
    IF j >= Max2(Len(prev_row), Len(row)) THEN <<>>
    ELSE
      LET old == IF j < Len(prev_row) THEN prev_row[j + 1] ELSE ""
          new == IF j < Len(row) THEN row[j + 1] ELSE ""
          col == IF j < Len(headers) THEN headers[j + 1]
                 ELSE "col" \o Str(j + 1)
      IN  (IF cell_differs(old, new)
           THEN <<[time |-> tv, col |-> col, old |-> old, new |-> new]>>
           ELSE <<>>)
          \o RowChanges(prev_row, row, headers, tv, j + 1)

RECURSIVE AllChanges(_, _, _, _)
\* changes_all from row i (0-based) on
AllChanges(prev_rows, rows, headers, i) ==
    IF i >= Max2(Len(prev_rows), Len(rows)) THEN <<>>
    ELSE
      LET prev_row == IF i < Len(prev_rows) THEN prev_rows[i + 1] ELSE <<>>
          row == IF i < Len(rows) THEN rows[i + 1] ELSE <<>>
      IN  RowChanges(prev_row, row, headers, time_val(prev_row, row, i), 0)
          \o AllChanges(prev_rows, rows, headers, i + 1)

\* an entry of changes_preview
preview_entry(e) ==
    [time |-> e.time, col |-> e.col, old |-> Split(e.old, "{")[1],
     new |-> Split(e.new, "{")[1]]

\* cap is read as len(changes_preview) < cap before each append
diff_tables(prev_headers, prev_rows, headers, rows, cap) ==
    LET all == AllChanges(prev_rows, rows, headers, 0)
        n == IF cap <= 0 THEN 0 ELSE Min2(cap, Len(all))
    IN  [preview |-> [k \in 1..n |-> preview_entry(all[k])], all |-> all]

-----------------------------------------------------------------------------
(* bot.py:217-266, the colour classifier *)

clean_cell(val) ==
    IF val = "" THEN "" ELSE Strip(Split1(val, "{")[1])

\* <<classes, style>>
_parse_cell_meta(val) ==
    IF val # "" /\ In("{", val) /\ In("}", val)
    THEN LET meta == Split1(Split1(val, "{")[2], "}")[1]
             parts == Split1(meta, "|")
         IN  <<Lower(parts[1]), IF Len(parts) > 1 THEN Lower(parts[2]) ELSE "">>
    ELSE <<"", "">>

AnyIn(keys, s) == \E k \in keys : In(k, s)

OnClassWords == {"table-success", "bg-success", "text-bg-success", "green"}

OnStyleWords ==
    {"#28a745", "#198754", "#2ecc71", "#00ff00", "background:green",
     "background-color:green"}

_is_on_by_color(classes, style) ==
    LET c == Strip(Lower(classes))
        s == Replace(Lower(style), " ", "")
    IN  \/ In("item-enable", c)
        \/ In("#a1eebd", s) \/ In("rgb(161,238,189)", s)
        \/ AnyIn(OnClassWords, c)
        \/ AnyIn(OnStyleWords, s)

OffClassWords ==
    {"table-warning", "table-danger", "bg-warning", "bg-danger",
     "text-bg-warning", "text-bg-danger", "warning", "danger", "yellow", "red"}

OffStyleWords ==
    {"#ffc107", "#ffcc00", "#f1c40f", "#dc3545", "#ff0000",
     "background:yellow", "background-color:yellow",
     "background:red", "background-color:red"}

_is_off_by_color(classes, style) ==
    LET c == Strip(Lower(classes))
        s == Replace(Lower(style), " ", "")
    IN  \/ In("item-off", c) \/ In("item-probably", c)
        \/ In("#f6d6d6", s) \/ In("rgb(246,214,214)", s)
        \/ In("#f6f7c4", s) \/ In("rgb(246,247,196)", s)
        \/ AnyIn(OffClassWords, c)
        \/ AnyIn(OffStyleWords, s)

_cell_state_by_color(queue_name, val) ==
    LET text == clean_cell(val)
        meta == _parse_cell_meta(val)
    IN  IF _is_off_by_color(meta[1], meta[2]) THEN "off"
        ELSE IF _is_on_by_color(meta[1], meta[2]) THEN "on"
        ELSE IF text = queue_name THEN "off" ELSE "on"

-----------------------------------------------------------------------------
(* bot.py:11-13, 268-283: wall-clock instants in Europe/Kyiv *)

\* utcoffset of EET, in minutes
EET == 120

\* utcoffset of EEST, in minutes
EEST == 180

\* timedelta(days=1), in minutes
DAY == 1440

\* date.today(): what matters of it is the zone's rule on that date.  On
\* "spring_forward" the wall clock jumps from 03:00 EET to 04:00 EEST, on
\* "fall_back" from 04:00 EEST to 03:00 EET.
Todays == {"standard", "summer", "spring_forward", "fall_back"}

\* dtime(h, m) accepts these and raises ValueError on the rest
dtime_ok(h, m) == h \in 0..23 /\ m \in 0..59

\* TZ.localize(datetime.combine(today, dtime(h, m))) with pytz's default
\* is_dst=False: a wall time the day does not have keeps the offset from
\* before the jump, a wall time it has twice takes the standard one.  An
\* instant is the day (0 = today), the wall-clock minute and the offset.
localize(today, h, m) ==
    LET wall == 60 * h + m
        off == CASE today = "standard" -> EET
                 [] today = "summer" -> EEST
                 [] today = "spring_forward" ->
                        IF wall < 4 * 60 THEN EET ELSE EEST
                 [] today = "fall_back" ->
                        IF wall < 3 * 60 THEN EEST ELSE EET
    IN  [day |-> 0, min |-> wall, off |-> off]

\* the instant on the UTC line: aware datetimes compare by it
utc(d) == d.day * DAY + d.min - d.off

\* d + timedelta(days=1): the wall clock and the tzinfo stay
plus_day(d) == [d EXCEPT !.day = d.day + 1]

NoRange == [ok |-> FALSE]

parse_time_range(s0, today) ==
    LET s == Replace(Replace(Replace(Replace(Strip(s0), EN_DASH, "-"),
                                     EM_DASH, "-"), " ", ""), NBSP, "")
    IN  IF s = "" \/ ~In("-", s) THEN NoRange
        ELSE
          LET ab == Split1(s, "-")
              pa == Split(ab[1], ":")
              pb == Split(ab[2], ":")
          IN  IF Len(pa) # 2 \/ Len(pb) # 2 THEN NoRange
              ELSE
                LET h1 == int(pa[1])
                    m1 == int(pa[2])
                    h2 == int(pb[1])
                    m2 == int(pb[2])
                IN  IF ~(h1.ok /\ m1.ok /\ h2.ok /\ m2.ok) THEN NoRange
                    ELSE IF ~(dtime_ok(h1.val, m1.val) /\ dtime_ok(h2.val, m2.val))
                    THEN NoRange
                    ELSE
                      LET start == localize(today, h1.val, m1.val)
                          end == localize(today, h2.val, m2.val)
                      IN  [ok |-> TRUE, start |-> start,
                           end |-> IF utc(end) <= utc(start)
                                   THEN plus_day(end) ELSE end]

-----------------------------------------------------------------------------
(* bot.py:285-330, the schedule interval builder *)

RECURSIVE Dedup(_)
\* the keys of a dict filled in this order
Dedup(xs) ==
    IF Len(xs) = 0 THEN <<>>
    ELSE LET rest == Dedup(SubSeq(xs, 1, Len(xs) - 1))
             x == xs[Len(xs)]
         IN  IF \E i \in 1..Len(rest) : rest[i] = x THEN rest
             ELSE Append(rest, x)

RECURSIVE MapClean(_)
\* [_clean_text(h) for h in hs]
MapClean(hs) ==
    IF Len(hs) = 0 THEN <<>>
    ELSE <<_clean_text(hs[1])>> \o MapClean(Tail(hs))

RECURSIVE ParsedRows(_, _, _)
\* the 1-based indices of the rows whose first cell parses, in row order
ParsedRows(rows, today, i) ==
    IF i > Len(rows) THEN <<>>
    ELSE LET r == rows[i]
             tr == IF Len(r) > 0 THEN clean_cell(r[1]) ELSE ""
         IN  (IF parse_time_range(tr, today).ok THEN <<i>> ELSE <<>>)
             \o ParsedRows(rows, today, i + 1)

\* times: the parsed (start, end) of the rows idx; keys: list(cols.keys());
\* from: the row each entry of times was parsed from
schedule_of(headers, rows, today, idx) ==
    [times |-> [k \in 1..Len(idx) |->
                  parse_time_range(clean_cell(rows[idx[k]][1]), today)],
     keys |-> Dedup(MapClean(Tail(headers))),
     from |-> idx]

build_schedule_map(headers, rows, today) ==
    IF Len(headers) = 0 \/ Len(rows) = 0
    THEN [times |-> <<>>, keys |-> <<>>, from |-> <<>>]
    ELSE schedule_of(headers, rows, today, ParsedRows(rows, today, 1))

\* 0-based as in the source, -1 when no header matches
_column_index(headers, q) ==
    IF \E i \in 1..Len(headers) : _clean_text(headers[i]) = q
    THEN (CHOOSE i \in 1..Len(headers) :
            /\ _clean_text(headers[i]) = q
            /\ \A j \in 1..(i - 1) : _clean_text(headers[j]) # q) - 1
    ELSE -1

\* the cell the loop reads for the i-th entry of times (i is 0-based)
val_raw(rows, i, col_idx) ==
    IF i < Len(rows) /\ col_idx < Len(rows[i + 1])
    THEN rows[i + 1][col_idx + 1] ELSE ""

\* the state the loop assigns to each entry of times, in order
slot_states(times, rows, q, col_idx) ==
    [k \in 1..Len(times) |->
        _cell_state_by_color(q, val_raw(rows, k - 1, col_idx))]

\* a run closed one slot too late: at the end of the slot that changes state
closed_run_late(cur, tstart, tend) ==
    [start |-> cur.start, end |-> tend, state |-> cur.state]

\* merged.append((cur_start, tstart, cur_state)) at a change of state
closed_run(cur, tstart, tend) ==
    [start |-> cur.start, end |-> tstart, state |-> cur.state]

\* cur_state, cur_start after the slot (tstart, tend) of state `state`
next_cur(cur, state, tstart) ==
    IF cur.state = "none" \/ state # cur.state
    THEN [state |-> state, start |-> tstart] ELSE cur

\* the run closed at every slot after the first, the states not compared
next_merged_every_slot(cur, merged, state, tstart, tend) ==
    IF cur.state # "none"
    THEN Append(merged, [start |-> cur.start, end |-> tstart,
                         state |-> cur.state])
    ELSE merged

\* merged after that slot, before the last-slot append
next_merged(cur, merged, state, tstart, tend) ==
    IF cur.state # "none" /\ state # cur.state
    THEN Append(merged, closed_run(cur, tstart, tend))
    ELSE merged

\* if i == len(times) - 1: merged.append((cur_start, tend, cur_state))
last_append(is_last, cur, merged, tend) ==
    IF is_last
    THEN Append(merged, [start |-> cur.start, end |-> tend,
                         state |-> cur.state])
    ELSE merged

RECURSIVE MergeLoop(_, _, _, _, _)
\* the for loop of intervals_for_queue from index i (0-based) on; states
\* holds the state the loop computes for each entry of times
MergeLoop(times, states, i, cur, merged) ==
    IF i >= Len(times) THEN merged
    ELSE MergeLoop(times, states, i + 1,
           next_cur(cur, states[i + 1], times[i + 1].start),
           last_append(i = Len(times) - 1,
             next_cur(cur, states[i + 1], times[i + 1].start),
             next_merged(cur, merged, states[i + 1],
                         times[i + 1].start, times[i + 1].end),
             times[i + 1].end))

\* the result once the schedule map, the cleaned name and the column are known
intervals_of(map, rows, q, col_idx, states) ==
    IF (\A k \in 1..Len(map.keys) : map.keys[k] # q) \/ Len(map.times) = 0
    THEN [intervals |-> <<>>, known |-> map.keys, states |-> <<>>]
    ELSE IF col_idx < 0
    THEN [intervals |-> <<>>, known |-> map.keys, states |-> <<>>]
    ELSE [states |-> states,
          intervals |->
            MergeLoop(map.times, states, 0,
                      [state |-> "none", start |-> localize("standard", 0, 0)],
                      <<>>),
          known |-> map.keys]

\* slot_states of the times of map
states_of(map, rows, q, col_idx) ==
    intervals_of(map, rows, q, col_idx,
                 slot_states(map.times, rows, q, col_idx))

column_of(map, headers, rows, q) ==
    states_of(map, rows, q, _column_index(headers, q))

intervals_for_queue(queue_name, headers, rows, today) ==
    column_of(build_schedule_map(headers, rows, today), headers, rows,
              _clean_text(queue_name))

-----------------------------------------------------------------------------
(* parse_time_range on slot texts *)

Digits == "0123456789"

\* "%02d" % n
Fmt2(n) == Char(Digits, (n \div 10) + 1) \o Char(Digits, (n % 10) + 1)

SlotText(h1, m1, dash, h2, m2) ==
    Fmt2(h1) \o ":" \o Fmt2(m1) \o dash \o Fmt2(h2) \o ":" \o Fmt2(m2)

SlotHours == {0, 2, 3, 4, 8, 23}

SlotMinutes == {0, 30}

SlotDashes == {"-", EN_DASH, " - "}

ParseCalls ==
    [fn : {"parse_time_range"}, today : Todays, dash : SlotDashes,
     h1 : SlotHours, m1 : SlotMinutes, h2 : SlotHours, m2 : SlotMinutes]

InitParse == BotAtRest /\ call \in ParseCalls /\ ret = NotRun

CallParse ==
    /\ call.fn = "parse_time_range" /\ ret = NotRun
    /\ ret' = [fn |-> "parse_time_range",
               value |-> parse_time_range(
                   SlotText(call.h1, call.m1, call.dash, call.h2, call.m2),
                   call.today)]
    /\ UNCHANGED <<botVars, call>>

NextParse == CallParse

SpecParse == InitParse /\ [][NextParse]_vars

\* C10: a slot text H1:M1-H2:M2 with valid clock values parses to a start
\* at H1:M1 today and an end strictly after it, which is H2:M2 of the same
\* day when H2:M2 is later than H1:M1 and H2:M2 of the next day otherwise.
C10_EndFollowsStart ==
    ret.fn = "parse_time_range" =>
        LET w1 == 60 * call.h1 + call.m1
            w2 == 60 * call.h2 + call.m2
            v == ret.value
        IN  /\ v.ok
            /\ v.start.day = 0 /\ v.start.min = w1
            /\ utc(v.end) > utc(v.start)
            /\ v.end.min = w2
            /\ v.end.day = IF w2 > w1 THEN 0 ELSE 1

-----------------------------------------------------------------------------
(* _cell_state_by_color on the cells normalize_cell_text produces *)

QueueNames == {"1.1", "2.2"}

\* the text of a <td>: empty, a word, a queue's own name, placeholders the
\* page's template left in
CellTexts == {"", "ok", "1.1", "{{x}}", "{{colored}}"}

\* " ".join(sorted(tag.get("class", [])))
CellClasses ==
    {"", "item-off", "item-enable", "item-enable item-off", "Table-Danger",
     "bg-success red", "cell"}

\* tag.get("style", "")
CellStyles ==
    {"", "background: #A1EEBD", "background:#f6d6d6",
     "background: #f6f7c4; color: #198754", "width: 10px"}

ClassifyCalls ==
    [fn : {"_cell_state_by_color"}, queue : QueueNames, text : CellTexts,
     classes : CellClasses, style : CellStyles]

\* the raw cell of the call, as the extractor encodes it
CallCell == normalize_cell_text(call.text, call.classes, call.style, TRUE)

InitClassify == BotAtRest /\ call \in ClassifyCalls /\ ret = NotRun

CallClassify ==
    /\ call.fn = "_cell_state_by_color" /\ ret = NotRun
    /\ ret' = [fn |-> "_cell_state_by_color",
               value |-> _cell_state_by_color(call.queue, CallCell)]
    /\ UNCHANGED <<botVars, call>>

NextClassify == CallClassify

SpecClassify == InitClassify /\ [][NextClassify]_vars

\* C9: a cell whose style metadata (its classes and inline style) carries a
\* recognized off signal classifies off, whatever on signals or text it has.
C9_OffSignalWins ==
    (ret.fn = "_cell_state_by_color"
        /\ _is_off_by_color(call.classes, call.style))
    => ret.value = "off"

-----------------------------------------------------------------------------
(* intervals_for_queue on small tables *)

\* the most rows a table of these checks has
MaxRows == 3

RECURSIVE SeqsUpTo(_, _)
\* the sequences over S of length at most n
SeqsUpTo(S, n) ==
    IF n = 0 THEN {<<>>}
    ELSE LET shorter == SeqsUpTo(S, n - 1)
         IN  shorter \cup {Append(q, x) : q \in shorter, x \in S}

ScheduleHeaders == {<<"Time", "1.1", "1.2">>, <<"Time", " 1.2", "1.1_">>}

\* rows as the extractor returns them: in and out of time order, overnight,
\* shorter than the headers, with a first cell that is no time range
ScheduleRows ==
    {<<"08:00-09:00", "1.1{item-off|}", "ok">>,
     <<"09:00-10:00", "ok{item-enable|}", "1.2{item-off|}">>,
     <<"10:00 ~ 11:00{cell|}", "1.1{item-off|}">>,
     <<"23:00-00:00", "ok", "1.2">>,
     <<"Time", "1.1{item-off|}", "x">>}

IntervalCalls ==
    [fn : {"intervals_for_queue"}, queue : {"1.1", " 1.2 ", "9.9"},
     headers : ScheduleHeaders, rows : SeqsUpTo(ScheduleRows, MaxRows),
     today : {"standard", "summer"}]

InitIntervals == BotAtRest /\ call \in IntervalCalls /\ ret = NotRun

CallIntervals ==
    /\ call.fn = "intervals_for_queue" /\ ret = NotRun
    /\ ret' = [fn |-> "intervals_for_queue",
               value |-> intervals_for_queue(call.queue, call.headers,
                                             call.rows, call.today)]
    /\ UNCHANGED <<botVars, call>>

NextIntervals == CallIntervals

SpecIntervals == InitIntervals /\ [][NextIntervals]_vars

\* the parsed slots of the call's table, in row order
CallSlots == build_schedule_map(call.headers, call.rows, call.today)

\* the call's queue names a non-time header and at least one row parses
CallHasSlots ==
    /\ \E j \in 2..Len(call.headers) :
          _clean_text(call.headers[j]) = _clean_text(call.queue)
    /\ Len(CallSlots.times) >= 1

\* C1: for a queue that matches a non-time header and N >= 1 parsed slots
\* the intervals are ordered, each has start < end, each ends where the next
\* starts, they span exactly [slot[0].start, slot[N-1].end) and are at most N.
C1_IntervalsPartitionRange ==
    (ret.fn = "intervals_for_queue" /\ CallHasSlots) =>
        LET iv == ret.value.intervals
            slots == CallSlots.times
            n == Len(iv)
        IN  /\ n >= 1 /\ n <= Len(slots)
            /\ \A k \in 1..n : utc(iv[k].start) < utc(iv[k].end)
            /\ \A k \in 1..(n - 1) : iv[k].end = iv[k + 1].start
            /\ iv[1].start = slots[1].start
            /\ iv[n].end = slots[Len(slots)].end

\* the parsed slots start one after the other and the last one ends after
\* it starts
CallSlotsAscend ==
    LET slots == CallSlots.times
    IN  /\ \A k \in 1..(Len(slots) - 1) :
              utc(slots[k].start) < utc(slots[k + 1].start)
        /\ \A k \in 1..Len(slots) : k = Len(slots) =>
              utc(slots[k].start) < utc(slots[k].end)

\* C1, amended: the same, for tables whose parsed slots are listed in
\* strictly ascending order of start and whose last slot ends after it starts.
C1_AscendingSlotsPartition ==
    CallSlotsAscend => C1_IntervalsPartitionRange

\* a table of ascending slots, one of them overnight, that gave several runs
C1_Witness ==
    /\ ret.fn = "intervals_for_queue" /\ CallHasSlots /\ CallSlotsAscend
    /\ Len(CallSlots.times) = MaxRows
    /\ Len(ret.value.intervals) >= 2
    /\ ret.value.intervals[Len(ret.value.intervals)].end.day = 1

\* the queue's cell in the row the k-th slot was parsed from
CellOfSlot(k) ==
    LET r == call.rows[CallSlots.from[k]]
        j == _column_index(call.headers, _clean_text(call.queue)) + 1
    IN  IF j <= Len(r) THEN r[j] ELSE ""

\* C2: the state assigned to the k-th parsed slot is the classification of
\* the queue's cell in the row that slot was parsed from, wherever the rows
\* that do not parse stand.
C2_StateFromSlotRow ==
    (ret.fn = "intervals_for_queue" /\ CallHasSlots) =>
        /\ Len(ret.value.states) = Len(CallSlots.times)
        /\ \A k \in 1..Len(ret.value.states) :
              ret.value.states[k] =
                  _cell_state_by_color(_clean_text(call.queue), CellOfSlot(k))

-----------------------------------------------------------------------------
(* diff_tables on small tables *)

\* the most rows a table of these checks has
MaxDiffRows == 2

\* headers as wide as the rows, and fewer headers than cells
DiffHeaders == {<<"Time", "1.1">>, <<"Chas">>}

\* rows of raw cells as the extractor encodes them, one of them a
\* placeholder the page's template left in, under a class
DiffRowSet ==
    {<<>>,
     <<"08:00{t|}", "ok{item-off|}">>,
     <<"08:00{t|}", "ok{item-enable|}">>,
     <<"09:00", "ok{item-off|}", "{{x}}{item-off|}">>,
     <<"09:00", "">>}

DiffCaps == {0, 1, 30}

DiffCalls ==
    [fn : {"diff_tables"}, prev_headers : DiffHeaders,
     prev_rows : SeqsUpTo(DiffRowSet, MaxDiffRows), headers : DiffHeaders,
     rows : SeqsUpTo(DiffRowSet, MaxDiffRows), cap : DiffCaps]

InitDiff == BotAtRest /\ call \in DiffCalls /\ ret = NotRun

CallDiff ==
    /\ call.fn = "diff_tables" /\ ret = NotRun
    /\ ret' = [fn |-> "diff_tables",
               value |-> diff_tables(call.prev_headers, call.prev_rows,
                                     call.headers, call.rows, call.cap)]
    /\ UNCHANGED <<botVars, call>>

NextDiff == CallDiff

SpecDiff == InitDiff /\ [][NextDiff]_vars

\* the raw cell at row i, column j (1-based), "" where the table has none
CellAt(rows, i, j) ==
    IF i <= Len(rows) /\ j <= Len(rows[i]) THEN rows[i][j] ELSE ""

\* the widest row of the two tables of the call
CallWidth ==
    LET lens == {Len(call.prev_rows[i]) : i \in 1..Len(call.prev_rows)}
                \cup {Len(call.rows[i]) : i \in 1..Len(call.rows)} \cup {0}
    IN  CHOOSE w \in lens : \A v \in lens : v <= w

\* the positions at which the two tables of the call differ
CallChanged ==
    {p \in (1..Max2(Len(call.prev_rows), Len(call.rows))) \X (1..CallWidth) :
        CellAt(call.prev_rows, p[1], p[2]) # CellAt(call.rows, p[1], p[2])}

\* the place of position p among the changed ones, rows first
RankOf(changed, p) ==
    Cardinality({q \in changed :
        q[1] < p[1] \/ (q[1] = p[1] /\ q[2] <= p[2])})

\* C5: the full list holds exactly one entry per position at which the raw
\* cells differ (a missing row or cell reading as ""), with the old and the
\* new raw value, and none for a position whose values are equal.
C5_OneEntryPerChangedCell ==
    ret.fn = "diff_tables" =>
        LET changed == CallChanged
        IN  /\ Len(ret.value.all) = Cardinality(changed)
            /\ \A p \in changed :
                  LET e == ret.value.all[RankOf(changed, p)]
                  IN  /\ e.old = CellAt(call.prev_rows, p[1], p[2])
                      /\ e.new = CellAt(call.rows, p[1], p[2])

\* a cell whose styling alone changed, next to a row that went away
C5_Witness ==
    /\ ret.fn = "diff_tables"
    /\ Len(call.prev_rows) > Len(call.rows)
    /\ \E p \in CallChanged :
          /\ Split(CellAt(call.prev_rows, p[1], p[2]), "{")[1]
               = Split(CellAt(call.rows, p[1], p[2]), "{")[1]
          /\ CellAt(call.rows, p[1], p[2]) # ""
    /\ Len(ret.value.all) >= 3

-----------------------------------------------------------------------------
(* table_signature on pairs of small tables *)

\* the most rows a table of these checks has
MaxSigRows == 2

SigHeaders == {<<"Time">>, <<"Time", "a">>, <<"Time", "a", "b">>}

SigRowSet == {<<"a">>, <<"b">>, <<"a", "b">>, <<"a{x|}", "b">>}

SigTables == [headers : SigHeaders, rows : SeqsUpTo(SigRowSet, MaxSigRows)]

SigCalls == [fn : {"table_signature"}, t1 : SigTables, t2 : SigTables]

InitSig == BotAtRest /\ call \in SigCalls /\ ret = NotRun

CallSig ==
    /\ call.fn = "table_signature" /\ ret = NotRun
    /\ ret' = [fn |-> "table_signature",
               sig1 |-> table_signature(call.t1.headers, call.t1.rows),
               sig2 |-> table_signature(call.t2.headers, call.t2.rows)]
    /\ UNCHANGED <<botVars, call>>

NextSig == CallSig

SpecSig == InitSig /\ [][NextSig]_vars

\* C6: with a collision-free digest, two tables have the same signature if
\* and only if they have the same headers and the same rows.
C6_SignatureTellsTablesApart ==
    ret.fn = "table_signature" =>
        ((ret.sig1 = ret.sig2) <=> (call.t1 = call.t2))

-----------------------------------------------------------------------------
(* fetch_table on small pages *)

Td(text, classes) == [text |-> text, classes |-> classes, style |-> ""]

\* the schedule, rendered
PageA ==
    <<[ths |-> <<"Chas", "1.1">>,
       trs |-> << <<>>,
                  <<Td("08:00-09:00", ""), Td("1.1", "item-off")>>,
                  <<Td("09:00-10:00", ""), Td("ok", "")>> >>]>>

\* the schedule after one cell changed its class
PageB ==
    <<[ths |-> <<"Chas", "1.1">>,
       trs |-> << <<>>,
                  <<Td("08:00-09:00", ""), Td("1.1", "item-off")>>,
                  <<Td("09:00-10:00", ""), Td("ok", "item-off")>> >>]>>

\* the schedule after its queue was renamed
PageC ==
    <<[ths |-> <<"Chas", "1.2">>,
       trs |-> << <<>>,
                  <<Td("08:00-09:00", ""), Td("1.1", "item-off")>>,
                  <<Td("09:00-10:00", ""), Td("ok", "")>> >>]>>

\* a table with a single header, its rows as wide as the schedule's
PageNarrow ==
    <<[ths |-> <<"Chas">>,
       trs |-> << <<Td("1.1", "")>>,
                  <<Td("08:00-09:00", ""), Td("1.1", "item-off")>>,
                  <<Td("09:00-10:00", ""), Td("ok", "")>> >>]>>

\* the page before its template ran
PageTemplate ==
    <<[ths |-> <<"Chas", "{{ q }}">>,
       trs |-> << <<Td("{{ t }}", ""), Td("{{ v }}", "item-off")>> >>]>>

\* placeholders left in two rows
PageTemplateRows ==
    <<[ths |-> <<"Chas", "1.1">>,
       trs |-> << <<Td("{{ t }}", ""), Td("ok", "")>>,
                  <<Td("{{ t }}", ""), Td("ok", "")>> >>]>>

\* a layout table first, the schedule without <th> second
PageTwoTables ==
    <<[ths |-> <<>>, trs |-> << <<Td("menu", "")>> >>],
      [ths |-> <<"chasy", "1.1">>,
       trs |-> << <<Td("08:00-09:00", ""), Td("ok", "")>> >>]>>

\* a table without headers
PageNoHeaders ==
    <<[ths |-> <<>>,
       trs |-> << <<Td("08:00-09:00", ""), Td("ok", "")>> >>]>>

\* headers and no data row
PageNoRows == <<[ths |-> <<"Chas", "1.1">>, trs |-> << <<>> >>]>>

\* no table at all
PageEmpty == <<>>

FetchPages ==
    {PageA, PageB, PageC, PageNarrow, PageTemplate, PageTemplateRows,
     PageTwoTables, PageNoHeaders, PageNoRows, PageEmpty}

Responses(pages) ==
    {[kind |-> "error", page |-> <<>>]} \cup [kind : {"page"}, page : pages]

FetchCalls ==
    [fn : {"fetch_table"}, get : Responses(FetchPages),
     _PLAYWRIGHT_OK : BOOLEAN, rendered : Responses(FetchPages)]

InitFetch == BotAtRest /\ call \in FetchCalls /\ ret = NotRun

CallFetch ==
    /\ call.fn = "fetch_table" /\ ret = NotRun
    /\ ret' = [fn |-> "fetch_table",
               value |-> fetch_table(call.get, call._PLAYWRIGHT_OK,
                                     call.rendered)]
    /\ UNCHANGED <<botVars, call>>

NextFetch == CallFetch

SpecFetch == InitFetch /\ [][NextFetch]_vars

\* C7: fetch_table never returns a table that looks unrendered; where the
\* plain fetch is rejected and the browser gives nothing better it ends in an
\* error.
C7_NeverReturnsUnrendered ==
    (ret.fn = "fetch_table" /\ ret.value.ok) =>
        ~_looks_unrendered(ret.value.headers, ret.value.rows)

-----------------------------------------------------------------------------
(* bot.py:350-574, the bot: the snapshot, the subscribers and the handlers. *)
(*                                                                         *)
(* main() hands check_job to the job queue, which runs it on the queue's   *)
(* own thread every CHECK_INTERVAL_MIN minutes, one run after the other,   *)
(* and the handlers to the dispatcher, which runs them one after the other *)
(* on its thread.  The code takes no lock, so a step of one thread may     *)
(* fall between any two blocking calls of the other; fetch_table is the    *)
(* call a handler blocks in, and a handler is cut there and nowhere else.  *)
(* save_json writes files that are read back at start-up only; they are    *)
(* left out.                                                               *)

\* the largest value of the clock
MaxClock == 1

Chats == {1, 2}

BotQueues == {"1.1", "9.9"}

\* what the site may serve while the bot runs
BotPages == {PageA, PageB, PageC, PageNarrow}

\* what fetch_table may return while the bot runs, the optional browser
\* installed or not
BotFetches ==
    {fetch_table(get, ok, rendered) :
        get \in Responses(BotPages), ok \in BOOLEAN,
        rendered \in Responses(BotPages)}

\* date.today() of the bot's runs
BotToday == "standard"

AllKeys == {"sha256", "headers", "rows", "ts"}

\* not STATE
StateIsEmpty(st) == st.keys = {}

\* STATE.get("headers"), [] standing for None too
StateHeaders(st) == IF "headers" \in st.keys THEN st.headers ELSE <<>>

\* STATE.get("rows", [])
StateRows(st) == IF "rows" \in st.keys THEN st.rows ELSE <<>>

\* STATE = {"sha256": sig, "headers": headers, "rows": rows, "ts": ...}
new_snapshot(sig, headers, rows, now) ==
    [keys |-> AllKeys, sha256 |-> sig, headers |-> headers, rows |-> rows,
     ts |-> now]

\* STATE.update({"headers": headers, "rows": rows})
state_update(st, headers, rows) ==
    [st EXCEPT !.keys = st.keys \cup {"headers", "rows"},
               !.headers = headers, !.rows = rows]

\* a failed fetch that drops the snapshot
state_dropped_on_fetch_error(st) == EmptyState

\* the except branches around fetch_table: log, answer, return
state_after_fetch_error(st) == st

\* the (headers, rows) STATE can hold: nothing, or a table fetch_table returned
BotTables ==
    {<<t.headers, t.rows>> : t \in BotFetches}

\* table_signature of each of them, computed once
SignatureOf ==
    [t \in BotTables |-> table_signature(t[1], t[2])]

\* len(csv_rows) of diff_tables between each two of them, computed once
ChangesOf ==
    [p \in BotTables, t \in BotTables |->
        Len(diff_tables(p[1], p[2], t[1], t[2], 30).all)]

\* [_clean_text(h) for h in headers[1:]] of each of them, computed once
ColumnsOf ==
    [t \in BotTables |->
        IF Len(t[1]) > 0 THEN MapClean(Tail(t[1])) ELSE <<>>]

\* whether intervals_for_queue finds intervals, for each of them and each
\* queue a user may name, computed once
HasIntervals ==
    [t \in BotTables, queue \in BotQueues |->
        Len(intervals_for_queue(queue, t[1], t[2], BotToday).intervals) > 0]

\* _known_columns()
_known_columns(st) == ColumnsOf[<<StateHeaders(st), StateRows(st)>>]

\* the answer of when_cmd and of a queue button from the snapshot st
queue_reply(st, queue) ==
    IF HasIntervals[<<StateHeaders(st), StateRows(st)>>, queue]
    THEN "intervals" ELSE "not_found"

\* an except branch that logs and goes on to answer from the snapshot
reply_from_snapshot_on_fetch_error(st, queue) == queue_reply(st, queue)

\* the except branches of when_cmd and of the queue button: the answer that
\* the table could not be fetched, then return
reply_on_fetch_error(st, queue) == "fetch_failed"

\* a handler enters fetch_table
Begin(t, handler, queue) ==
    /\ pc' = [pc EXCEPT ![t] = handler]
    /\ run' = [run EXCEPT ![t] =
                 [IdleRun EXCEPT !.handler = handler, !.queue = queue,
                                 !.fetches = 1, !.outcome = "pending"]]

\* a handler ends
End(t, outcome, reply) ==
    /\ pc' = [pc EXCEPT ![t] = "idle"]
    /\ run' = [run EXCEPT ![t].outcome = outcome, ![t].reply = reply,
                          ![t].queue = ""]

\* a handler that does not fetch
Answer(t, handler, queue, reply) ==
    /\ pc' = pc
    /\ run' = [run EXCEPT ![t] =
                 [IdleRun EXCEPT !.handler = handler, !.reply = reply]]

Init ==
    /\ State = EmptyState
    /\ SUBSCRIBERS \in SUBSET Chats
    /\ pc = [t \in Threads |-> "idle"]
    /\ run = [t \in Threads |-> IdleRun]
    /\ clock = 0
    /\ call = NotRun
    /\ ret = NotRun

\* time passes
Tick ==
    /\ clock < MaxClock
    /\ clock' = clock + 1
    /\ UNCHANGED <<State, SUBSCRIBERS, pc, run, call, ret>>

\* the job queue starts check_job
JobTick ==
    /\ pc["job"] = "idle"
    /\ Begin("job", "check_job", "")
    /\ UNCHANGED <<State, SUBSCRIBERS, clock, call, ret>>

\* /check, or the button action:check: check_job on the dispatcher's thread
CheckCmd ==
    /\ pc["disp"] = "idle"
    /\ Begin("disp", "check_job", "")
    /\ UNCHANGED <<State, SUBSCRIBERS, clock, call, ret>>

\* the chats notify drops, one set for each way its sends can go: with
\* csv_rows it writes str rows through csv.writer into a BytesIO, which
\* raises for every chat; without them a send_message may fail or not
notify_dead(changes) ==
    IF changes > 0 THEN {SUBSCRIBERS} ELSE SUBSET SUBSCRIBERS

\* check_job returns after a successful fetch
EndCheck(t, table, notified, changes) ==
    /\ pc' = [pc EXCEPT ![t] = "idle"]
    /\ run' = [run EXCEPT ![t].outcome = "ok",
                          ![t].queue = "",
                          ![t].notified = notified,
                          ![t].changes = changes,
                          ![t].fetched = <<table.headers, table.rows>>]

\* a check that takes every fetched table for a changed one
fingerprint_always_differs(st, sig) == TRUE

\* sig != STATE.get("sha256"): a record without the key differs from all
fingerprint_differs(st, sig) ==
    "sha256" \notin st.keys \/ sig # st.sha256

\* the branches of check_job once sig, the new record and len(csv_rows)
\* are known
check_branches(t, table, dead, sig, fresh, changes) ==
    IF StateIsEmpty(State)
    THEN /\ State' = fresh
         /\ SUBSCRIBERS' = SUBSCRIBERS
         /\ EndCheck(t, table, FALSE, 0)
    ELSE IF fingerprint_differs(State, sig)
    THEN /\ State' = fresh
         /\ dead \in notify_dead(changes)
         /\ SUBSCRIBERS' = SUBSCRIBERS \ dead
         /\ EndCheck(t, table, TRUE, changes)
    ELSE /\ State' = State
         /\ SUBSCRIBERS' = SUBSCRIBERS
         /\ EndCheck(t, table, FALSE, 0)

\* check_job from the return of fetch_table on: table is what it returned,
\* dead the subscribers notify could not reach
check_job(t, table, dead) ==
    IF ~table.ok
    THEN /\ State' = state_after_fetch_error(State)
         /\ SUBSCRIBERS' = SUBSCRIBERS
         /\ End(t, "fail", "none")
    ELSE check_branches(t, table, dead,
           SignatureOf[<<table.headers, table.rows>>],
           new_snapshot(SignatureOf[<<table.headers, table.rows>>],
                        table.headers, table.rows, clock),
           ChangesOf[<<StateHeaders(State), StateRows(State)>>,
                     <<table.headers, table.rows>>])

CheckJobReturns ==
    \E t \in Threads, table \in BotFetches, dead \in SUBSET SUBSCRIBERS :
        /\ pc[t] = "check_job"
        /\ check_job(t, table, dead)
        /\ UNCHANGED <<clock, call, ret>>

\* /when without an argument, with a snapshot, or into fetch_table
WhenCmd ==
    \E queue \in BotQueues \cup {""} :
        /\ pc["disp"] = "idle"
        /\ IF queue = "" THEN Answer("disp", "when_cmd", queue, "usage")
           ELSE IF StateIsEmpty(State) THEN Begin("disp", "when_cmd", queue)
           ELSE Answer("disp", "when_cmd", queue, queue_reply(State, queue))
        /\ UNCHANGED <<State, SUBSCRIBERS, clock, call, ret>>

\* when_cmd from the return of fetch_table on
WhenCmdReturns ==
    \E table \in BotFetches :
        LET st == state_update(State, table.headers, table.rows)
        IN  /\ pc["disp"] = "when_cmd"
            /\ IF ~table.ok
               THEN /\ State' = state_after_fetch_error(State)
                    /\ End("disp", "fail",
                           reply_on_fetch_error(State, run["disp"].queue))
               ELSE /\ State' = st
                    /\ End("disp", "ok", queue_reply(st, run["disp"].queue))
            /\ UNCHANGED <<SUBSCRIBERS, clock, call, ret>>

\* build_queue_keyboard() when the snapshot names columns, else its fetch
Keyboard(handler, queue, st, reply) ==
    IF Len(_known_columns(st)) = 0
    THEN /\ pc' = [pc EXCEPT !["disp"] = "keyboard"]
         /\ run' = [run EXCEPT !["disp"] =
                      [IdleRun EXCEPT !.handler = handler, !.queue = queue,
                                      !.fetches = run["disp"].fetches + 1,
                                      !.outcome = "pending", !.reply = reply]]
    ELSE /\ pc' = [pc EXCEPT !["disp"] = "idle"]
         /\ run' = [run EXCEPT !["disp"] =
                      [run["disp"] EXCEPT !.handler = handler,
                                          !.queue = "",
                                          !.outcome = "ok", !.reply = reply]]

\* the button menu:queues
MenuQueues ==
    /\ pc["disp"] = "idle"
    /\ IF Len(_known_columns(State)) = 0
       THEN Begin("disp", "keyboard", "")
       ELSE Answer("disp", "keyboard", "", "keyboard")
    /\ UNCHANGED <<State, SUBSCRIBERS, clock, call, ret>>

\* build_queue_keyboard from the return of fetch_table on
KeyboardReturns ==
    \E table \in BotFetches :
        LET default == "default_keyboard"
        IN  /\ pc["disp"] = "keyboard"
            /\ IF ~table.ok
               THEN /\ State' = state_after_fetch_error(State)
                    /\ End("disp", "fail", default)
               ELSE /\ State' = state_update(State, table.headers, table.rows)
                    /\ End("disp", "ok",
                           IF Len(ColumnsOf[<<table.headers, table.rows>>]) = 0
                           THEN default ELSE "keyboard")
            /\ UNCHANGED <<SUBSCRIBERS, clock, call, ret>>

\* a queue button, qsel:<queue>
ButtonQsel ==
    \E queue \in BotQueues :
        /\ pc["disp"] = "idle"
        /\ IF Len(StateHeaders(State)) = 0 THEN Begin("disp", "qsel", queue)
           ELSE IF queue_reply(State, queue) = "not_found"
           THEN Answer("disp", "qsel", queue, "not_found")
           ELSE Keyboard("qsel", queue, State, "intervals")
        /\ UNCHANGED <<State, SUBSCRIBERS, clock, call, ret>>

\* the qsel branch of button_cb from the return of fetch_table on
ButtonQselReturns ==
    \E table \in BotFetches :
        LET st == state_update(State, table.headers, table.rows)
            queue == run["disp"].queue
        IN  /\ pc["disp"] = "qsel"
            /\ IF ~table.ok
               THEN /\ State' = state_after_fetch_error(State)
                    /\ End("disp", "fail",
                           reply_on_fetch_error(State, run["disp"].queue))
               ELSE /\ State' = st
                    /\ IF queue_reply(st, queue) = "not_found"
                       THEN End("disp", "ok", "not_found")
                       ELSE Keyboard("qsel", queue, st, "intervals")
            /\ UNCHANGED <<SUBSCRIBERS, clock, call, ret>>

\* /stop
StopCmd ==
    \E chat \in Chats :
        /\ pc["disp"] = "idle"
        /\ SUBSCRIBERS' = SUBSCRIBERS \ {chat}
        /\ Answer("disp", "stop_cmd", "", "stopped")
        /\ UNCHANGED <<State, clock, call, ret>>

\* the button sub:toggle
SubToggle ==
    \E chat \in Chats :
        /\ pc["disp"] = "idle"
        /\ SUBSCRIBERS' = IF chat \in SUBSCRIBERS THEN SUBSCRIBERS \ {chat}
                          ELSE SUBSCRIBERS \cup {chat}
        /\ Answer("disp", "sub_toggle", "", "toggled")
        /\ UNCHANGED <<State, clock, call, ret>>

Next ==
    \/ Tick
    \/ JobTick
    \/ CheckCmd
    \/ CheckJobReturns
    \/ WhenCmd
    \/ WhenCmdReturns
    \/ MenuQueues
    \/ KeyboardReturns
    \/ ButtonQsel
    \/ ButtonQselReturns
    \/ StopCmd
    \/ SubToggle

Spec == Init /\ [][Next]_vars

-----------------------------------------------------------------------------
(* the snapshot and the check cycles *)

\* C3: in every reachable state the snapshot STATE is empty or a complete
\* record (fingerprint, headers, rows, time of observation) whose fingerprint
\* is table_signature of the headers and rows it holds.
C3_SnapshotEmptyOrComplete ==
    \/ StateIsEmpty(State)
    \/ /\ State.keys = AllKeys
       /\ State.sha256 = table_signature(State.headers, State.rows)

\* the step of thread t in which its fetch_table fails
FetchFails(t) ==
    /\ pc[t] # "idle"
    /\ run[t].outcome = "pending"
    /\ run'[t].outcome = "fail"

\* C4: a step in which fetch_table fails inside check_job, when_cmd, the queue
\* button or build_queue_keyboard leaves STATE and the subscribers as they
\* were and ends the attempt: no further fetch is made in it.
C4_FailedFetchChangesNothing ==
    [][\A t \in Threads :
         FetchFails(t) =>
            /\ State' = State
            /\ SUBSCRIBERS' = SUBSCRIBERS
            /\ pc'[t] = "idle"
            /\ run'[t].fetches = run[t].fetches]_vars

\* a check cycle has failed while a complete snapshot and subscribers exist
C4_Witness ==
    /\ \E t \in Threads :
          run[t].handler = "check_job" /\ run[t].outcome = "fail"
    /\ State.keys = AllKeys
    /\ SUBSCRIBERS # {}

\* C8: at most one execution of check_job is in progress at any time, whether
\* started by the repeating job, by /check or by the check button.
C8_OneCheckCycleAtATime ==
    Cardinality({t \in Threads : pc[t] = "check_job"}) <= 1

\* the handlers that answer a query: when_cmd, the queue button, the keyboard
QueryHandlers == {"when_cmd", "qsel", "keyboard"}

\* a step of a query handler on the dispatcher's thread: it starts, answers
\* at once, or goes on from the return of its fetch_table
QueryStep ==
    /\ run'["disp"] # run["disp"]
    /\ \/ pc["disp"] \in QueryHandlers
       \/ pc["disp"] = "idle" /\ run'["disp"].handler \in QueryHandlers

\* C11: every step of a query handler (when_cmd, the queue button,
\* build_queue_keyboard) leaves the snapshot STATE unchanged, also when it
\* fetches the table itself.
C11_QueryHandlersOnlyRead ==
    [][QueryStep => State' = State]_vars

-----------------------------------------------------------------------------
(* intervals_for_queue: unknown queues and runs *)

\* [_clean_text(h) for h in headers[1:]] of the call's table
CallColumns ==
    IF Len(call.headers) = 0 THEN <<>> ELSE MapClean(Tail(call.headers))

\* the call's queue matches no non-time header
CallQueueUnknown ==
    \A j \in 1..Len(CallColumns) : CallColumns[j] # _clean_text(call.queue)

\* C12: for a queue whose normalized name matches no non-time header,
\* intervals_for_queue returns no interval and, as known columns, the list of
\* all normalized non-time headers, whatever the rows are.
C12_UnknownQueueListsColumns ==
    (ret.fn = "intervals_for_queue" /\ CallQueueUnknown) =>
        /\ ret.value.intervals = <<>>
        /\ ret.value.known = CallColumns

\* the number of adjacent slots to which the loop gave different states
StateChanges(states) ==
    Cardinality({k \in 1..(Len(states) - 1) : states[k] # states[k + 1]})

\* C17: the intervals are maximal runs: consecutive intervals differ in
\* state, there is one interval more than there are adjacent slots of
\* different state, and the last slot closes the open run once, with its
\* own end and state.
C17_IntervalsAreMaximalRuns ==
    (ret.fn = "intervals_for_queue" /\ CallHasSlots) =>
        LET iv == ret.value.intervals
            states == ret.value.states
            slots == CallSlots.times
        IN  /\ Len(iv) = 1 + StateChanges(states)
            /\ \A k \in 1..(Len(iv) - 1) : iv[k].state # iv[k + 1].state
            /\ iv[Len(iv)].end = slots[Len(slots)].end
            /\ iv[Len(iv)].state = states[Len(states)]

\* three slots, the first two of one state and the last of the other
C17_Witness ==
    /\ ret.fn = "intervals_for_queue" /\ CallHasSlots
    /\ Len(ret.value.states) = 3
    /\ ret.value.states[1] = ret.value.states[2]
    /\ ret.value.states[2] # ret.value.states[3]
    /\ Len(ret.value.intervals) = 2

-----------------------------------------------------------------------------
(* _cell_state_by_color: the fallback on the text *)

\* the call's cell has no recognized off signal and no recognized on signal
\* in its classes and inline style
CallCellPlain ==
    /\ ~_is_off_by_color(call.classes, call.style)
    /\ ~_is_on_by_color(call.classes, call.style)

\* C16: _cell_state_by_color returns on or off for every cell, and for a
\* cell with no recognized off or on signal it returns off exactly when the
\* cell's display text equals the queue's name, on otherwise.
C16_PlainCellFollowsText ==
    ret.fn = "_cell_state_by_color" =>
        /\ ret.value \in {"on", "off"}
        /\ CallCellPlain =>
              (ret.value = "off" <=> _clean_text(call.text) = call.queue)

-----------------------------------------------------------------------------
(* diff_tables of a table with itself *)

\* the two tables of the call are the same table
CallSameTable ==
    call.prev_headers = call.headers /\ call.prev_rows = call.rows

\* C15: diff_tables of a table with itself returns an empty preview and an
\* empty full list, whatever the headers and the widths of the rows.
C15_DiffOfTableWithItselfIsEmpty ==
    (ret.fn = "diff_tables" /\ CallSameTable) =>
        ret.value.preview = <<>> /\ ret.value.all = <<>>

\* a table with itself: rows of different widths, styled cells, fewer
\* headers than cells
C15_Witness ==
    /\ ret.fn = "diff_tables" /\ CallSameTable
    /\ Len(call.rows) = MaxDiffRows
    /\ Len(call.rows[1]) # Len(call.rows[2])
    /\ \E j \in 1..Len(call.rows[1]) : In("{", call.rows[1][j])
    /\ Len(call.headers) < Len(call.rows[1])
    /\ call.cap > 0

-----------------------------------------------------------------------------
(* bot.py:332-346, format_intervals_readable *)

\* the mark of an off interval and of an on interval
MARK_OFF == "X nemae"

MARK_ON == "+ e"

\* the fixed answer when nothing is left to show
NO_INTERVALS == "Na sogodni intervaly ne znajdeni."

\* d.strftime('%H:%M')
strftime_HM(d) == Fmt2(d.min \div 60) \o ":" \o Fmt2(d.min % 60)

\* f"{s.strftime('%H:%M')}-{e.strftime('%H:%M')} - {mark}", the dashes
\* standing for the source's en and em dash
format_line(item) ==
    strftime_HM(item.start) \o EN_DASH \o strftime_HM(item.end)
        \o " " \o EM_DASH \o " "
        \o (IF item.state = "off" THEN MARK_OFF ELSE MARK_ON)

RECURSIVE FormatLoop(_, _, _, _, _, _)
\* the for loop from item i (1-based) on; out holds the lines so far and
\* shown is len(out)
FormatLoop(items, i, limit, from_now_only, now, out) ==
    IF i > Len(items) THEN out
    ELSE IF from_now_only /\ utc(items[i].end) <= utc(now)
    THEN FormatLoop(items, i + 1, limit, from_now_only, now, out)
    ELSE IF Len(out) + 1 >= limit
    THEN Append(out, format_line(items[i]))
    ELSE FormatLoop(items, i + 1, limit, from_now_only, now,
                    Append(out, format_line(items[i])))

\* lines: out; text: what the function returns
formatted(out) ==
    [lines |-> out,
     text |-> IF Len(out) = 0 THEN NO_INTERVALS ELSE Join(out, "\n")]

format_intervals_readable(items, limit, from_now_only, now) ==
    formatted(FormatLoop(items, 1, limit, from_now_only, now, <<>>))

\* the most intervals a call is given
MaxItems == 3

\* one day's runs, the last one ending the next morning
FormatItems ==
    {[start |-> localize("standard", 8, 0), end |-> localize("standard", 9, 0),
      state |-> "off"],
     [start |-> localize("standard", 9, 0), end |-> localize("standard", 12, 30),
      state |-> "on"],
     [start |-> localize("standard", 12, 30),
      end |-> localize("standard", 23, 0), state |-> "off"],
     [start |-> localize("standard", 23, 0),
      end |-> plus_day(localize("standard", 0, 0)), state |-> "on"]}

\* limit, the default 16 among them
FormatLimits == {0, 1, 2, 16}

\* datetime.now(TZ): before, at the end of and after an interval
FormatNows ==
    {localize("standard", 7, 0), localize("standard", 9, 0),
     localize("standard", 13, 0), plus_day(localize("standard", 0, 1))}

FormatCalls ==
    [fn : {"format_intervals_readable"},
     items : SeqsUpTo(FormatItems, MaxItems), limit : FormatLimits,
     from_now_only : BOOLEAN, now : FormatNows]

InitFormat == BotAtRest /\ call \in FormatCalls /\ ret = NotRun

CallFormat ==
    /\ call.fn = "format_intervals_readable" /\ ret = NotRun
    /\ ret' = [fn |-> "format_intervals_readable",
               value |-> format_intervals_readable(call.items, call.limit,
                             call.from_now_only, call.now)]
    /\ UNCHANGED <<botVars, call>>

NextFormat == CallFormat

SpecFormat == InitFormat /\ [][NextFormat]_vars

RECURSIVE Surviving(_, _, _)
\* the intervals that survive: all of them, or with from_now_only those
\* that end strictly after now, in input order
Surviving(items, from_now_only, now) ==
    IF Len(items) = 0 THEN <<>>
    ELSE (IF from_now_only /\ utc(items[1].end) <= utc(now)
          THEN <<>> ELSE <<items[1]>>)
         \o Surviving(Tail(items), from_now_only, now)

\* the surviving intervals of the call
CallSurviving == Surviving(call.items, call.from_now_only, call.now)

\* C13: format_intervals_readable renders, in input order, exactly the
\* first min(limit, k) of the k surviving intervals, never more than limit
\* lines, and returns the fixed no-intervals message exactly when k = 0.
C13_RendersFirstSurvivors ==
    ret.fn = "format_intervals_readable" =>
        /\ Len(ret.value.lines) = Min2(call.limit, Len(CallSurviving))
        /\ \A k \in 1..Len(ret.value.lines) :
              k <= Len(CallSurviving)
                  /\ ret.value.lines[k] = format_line(CallSurviving[k])
        /\ Len(ret.value.lines) <= call.limit
        /\ ret.value.text = NO_INTERVALS <=> Len(CallSurviving) = 0

-----------------------------------------------------------------------------
(* point queries without a snapshot *)

\* the handlers that answer for one queue: when_cmd and the queue button
PointQueries == {"when_cmd", "qsel"}

\* the dispatcher takes up a point query that names a queue
PointQueryStarts ==
    /\ pc["disp"] = "idle"
    /\ run'["disp"] # run["disp"]
    /\ run'["disp"].handler \in PointQueries
    /\ run'["disp"].reply # "usage"

\* C14: a point query taken up while no snapshot exists fetches the table
\* before it answers, and when that fetch fails its reply is that the
\* table could not be fetched, never intervals or queue-not-found.
C14_FailedFetchIsReported ==
    [][/\ (PointQueryStarts /\ StateIsEmpty(State)) =>
             /\ pc'["disp"] \in PointQueries
             /\ run'["disp"].fetches = 1
             /\ run'["disp"].reply = "none"
       /\ (FetchFails("disp") /\ pc["disp"] \in PointQueries) =>
             run'["disp"].reply = "fetch_failed"]_vars

\* a queue button pressed without a snapshot, whose fetch has failed
C14_Witness ==
    /\ run["disp"].handler = "qsel"
    /\ run["disp"].fetches = 1
    /\ run["disp"].outcome = "fail"
    /\ pc["disp"] = "idle"
    /\ StateIsEmpty(State)

-----------------------------------------------------------------------------
(* what a successful check leaves behind *)

\* the step in which check_job of thread t returns after a successful fetch
CheckSucceeds(t) ==
    /\ pc[t] = "check_job"
    /\ run[t].outcome = "pending"
    /\ run'[t].outcome = "ok"

\* C18: after a check_job run whose fetch succeeded STATE holds the headers
\* and rows just fetched and their signature as fingerprint, whatever
\* snapshot was there before.
C18_SnapshotIsLastFetched ==
    [][\A t \in Threads :
         CheckSucceeds(t) =>
            /\ State'.keys = AllKeys
            /\ <<State'.headers, State'.rows>> = run'[t].fetched
            /\ State'.sha256 = table_signature(State'.headers, State'.rows)]_vars

\* C19: whenever check_job calls notify, the table just fetched differs
\* from the table the snapshot held before, and the full list of changed
\* cells it reports is not empty.
C19_NotificationReportsChange ==
    [][\A t \in Threads :
         (CheckSucceeds(t) /\ run'[t].notified) =>
            /\ <<StateHeaders(State), StateRows(State)>> # run'[t].fetched
            /\ run'[t].changes > 0]_vars

\* the fetched table's fingerprint differs from the one STATE stores, a
\* snapshot that stores none differing from all
FetchedDiffers(t) ==
    \/ "sha256" \notin State.keys
    \/ State.sha256 # table_signature(run'[t].fetched[1], run'[t].fetched[2])

\* C20: check_job calls notify in a run exactly when a snapshot existed
\* before and the fetched table's fingerprint differs from the stored one;
\* without a snapshot it stores the fetched table and does not notify; with
\* equal fingerprints it leaves the whole snapshot, its time included, as
\* it was.
C20_NotifiesIffFingerprintDiffers ==
    [][\A t \in Threads :
         CheckSucceeds(t) =>
            /\ run'[t].notified <=>
                  (~StateIsEmpty(State) /\ FetchedDiffers(t))
            /\ StateIsEmpty(State) =>
                  /\ State'.keys = AllKeys
                  /\ <<State'.headers, State'.rows>> = run'[t].fetched
            /\ (~StateIsEmpty(State) /\ ~FetchedDiffers(t)) =>
                  State' = State]_vars

\* a check has notified of changed cells, later than the snapshot it
\* replaced was taken
C20_Witness ==
    \E t \in Threads :
        /\ run[t].handler = "check_job" /\ run[t].outcome = "ok"
        /\ run[t].notified /\ run[t].changes > 0
        /\ State.ts > 0

-----------------------------------------------------------------------------
(* diff_tables: the preview *)

\* the <td>s that the raw cells of DiffRowSet encode
DiffCells ==
    {Td("08:00", "t"), Td("ok", "item-off"), Td("ok", "item-enable"),
     Td("09:00", ""), Td("{{x}}", "item-off"), Td("", "")}

\* the display text of a raw cell: the text of the <td> it encodes
TextOf(raw) ==
    (CHOOSE c \in DiffCells :
        normalize_cell_text(c.text, c.classes, c.style, TRUE) = raw).text

\* the first cell of the new row i, or of the old one where the new row is
\* missing or empty
FirstCell(i) ==
    IF i <= Len(call.rows) /\ Len(call.rows[i]) > 0 THEN call.rows[i][1]
    ELSE call.prev_rows[i][1]

\* headers[j], or col{j+1} beyond the headers (j is 1-based here)
ColumnName(j) ==
    IF j <= Len(call.headers) THEN call.headers[j] ELSE "col" \o Str(j)

\* C21: the preview has min(cap, len(full)) entries; its i-th entry is the
\* i-th entry of the full list with the old and new values stripped of
\* their style metadata; the time label is the style-stripped first cell of
\* the new row, or of the old row when there is no new one, and the column
\* name is the header at that index or col{j+1} beyond the headers.
C21_PreviewIsStrippedPrefix ==
    ret.fn = "diff_tables" =>
        LET changed == CallChanged
            all == ret.value.all
            preview == ret.value.preview
        IN  /\ Len(preview) = Min2(call.cap, Len(all))
            /\ \A k \in 1..Len(preview) :
                  /\ preview[k].time = all[k].time
                  /\ preview[k].col = all[k].col
                  /\ preview[k].old = TextOf(all[k].old)
                  /\ preview[k].new = TextOf(all[k].new)
            /\ \A p \in changed :
                  LET e == all[RankOf(changed, p)]
                  IN  /\ e.time = TextOf(FirstCell(p[1]))
                      /\ e.col = ColumnName(p[2])

=============================================================================
